---- MODULE Spec2Model ----
(***************************************************************************)
(* Model of the meal_data_etl_dag DAG of dags/school_meal_etl.py: one      *)
(* extract -> transform -> load chain per regional code, run by the        *)
(* Airflow scheduler with the DAG's default_args (retries = 2).            *)
(***************************************************************************)
EXTENDS Naturals, Integers, Sequences, FiniteSets, TLC

(* ------------------------------ bounds --------------------------------- *)

\* number of midnights that may pass while the model runs
MaxDay == 1
\* largest number of rows the upstream API returns
MaxRows == 3
\* number of times the batch is run for the same trigger date
MaxRuns == 2

(* ----------------------- constants of the program ---------------------- *)

ATPT_OFCDC_SC_CODES ==
  << "B10", "C10", "D10", "E10", "F10", "G10", "H10", "I10", "J10",
     "K10", "M10", "N10", "P10", "Q10", "R10", "S10", "T10" >>

TASK_TYPES == << "extract", "transform", "load" >>

\* default_args = {"retries": 2}
retries == 2

\* pendulum.now().add(days=7)
AddDays == 7

\* the registry the model runs: the first two codes of the list, the fewest
\* that show what one partition does to another
Registry == { ATPT_OFCDC_SC_CODES[1], ATPT_OFCDC_SC_CODES[2] }

\* the codes the assembly loop `for code in ATPT_OFCDC_SC_CODES` visits
LoopCodesSkipFirst == Registry \ { ATPT_OFCDC_SC_CODES[1] }

LoopCodes == Registry

Stages == { TASK_TYPES[i] : i \in 1..Len(TASK_TYPES) }

\* the marker of a call that raised nothing
NoExc == "None"

(* --------------------------- dates and keys ---------------------------- *)

\* the calendar day the batch is triggered on, as YYYYMMDD: 15 April 2022,
\* the day of the sample query of dags/meal.py
BaseYmd == 20220415

\* date.strftime('%Y%m%d') of the day `d` days after the base day, as the
\* number the eight digits spell (the model stays inside April 2022)
Strftime(d) == BaseYmd + d

\* pendulum.now().add(days=7), `now` being the number of days since the base day
NowPlusWeek(now) == now + AddDays

\* the form body had equal boundaries been sent as one MLSV_YMD parameter
get_meal_form_data_collapsed(code, to_date, end_date) ==
  [ rows |-> 100,
    ATPT_OFCDC_SC_CODE |-> code,
    MMEAL_SC_NM |-> "",
    MLSV_YMD |-> IF to_date = end_date
                   THEN << Strftime(to_date) >>
                   ELSE << Strftime(to_date), Strftime(end_date) >> ]

\* get_meal_form_data(code, to_date, end_date): the fields of the form body
get_meal_form_data(code, to_date, end_date) ==
  [ rows |-> 100,
    ATPT_OFCDC_SC_CODE |-> code,
    MMEAL_SC_NM |-> "",
    MLSV_YMD |-> << Strftime(to_date), Strftime(end_date) >> ]

\* the key had the code been left out of it: f"{date}/meal_data.json"
StorageKeyWithoutCode(date, code) ==
  [ dir |-> Strftime(date), name |-> "meal_data" ]

\* f"{date.strftime('%Y%m%d')}/{code}.json"
StorageKey(date, code) == [ dir |-> Strftime(date), name |-> code ]

(* ------------------------------- JSON ---------------------------------- *)

\* A text is what travels through XCom and to S3.  A text that is a JSON
\* array carries its rows and the way it is written: "api" is the upstream
\* server's rendering, "py" is json.dumps' rendering.
HeaderRow == [ kind |-> "header", code |-> "", ymd |-> 0, n |-> 0 ]

DataRow(code, ymd, i) == [ kind |-> "data", code |-> code, ymd |-> ymd, n |-> i ]

ArrayText(rows, style) == [ kind |-> "array", rows |-> rows, style |-> style ]

BadText == [ kind |-> "bad", rows |-> << >>, style |-> "api" ]

\* Python's None where a text is expected (an XCom that was never pushed)
NoText == [ kind |-> "None", rows |-> << >>, style |-> "" ]

\* json.loads: the parsed list, or the exception raised
json_loads(s) ==
  IF s = NoText THEN [ exc |-> "TypeError", val |-> << >> ]
  ELSE IF s.kind = "array" THEN [ exc |-> NoExc, val |-> s.rows ]
  ELSE [ exc |-> "JSONDecodeError", val |-> << >> ]

\* json.dumps of a list of rows
json_dumps(rows) == ArrayText(rows, "py")

\* list.pop(i) for i >= 0: the list without the element at index i, or IndexError
ListPopLast(l, i) ==
  IF Len(l) = 0 THEN [ exc |-> "IndexError", val |-> l ]
  ELSE [ exc |-> NoExc, val |-> SubSeq(l, 1, Len(l) - 1) ]

ListPop(l, i) ==
  IF i >= Len(l) THEN [ exc |-> "IndexError", val |-> l ]
  ELSE [ exc |-> NoExc,
         val |-> [ j \in 1..(Len(l) - 1) |-> IF j <= i THEN l[j] ELSE l[j + 1] ] ]

\* transform had the row been sliced off without keeping the result
\* (`meal_data[1:]` as a statement): the text is parsed and written back whole
transformKeepsAllRows(extract_data_string) ==
  LET parsed == json_loads(extract_data_string) IN
  IF parsed.exc # NoExc THEN [ exc |-> parsed.exc, out |-> NoText ]
  ELSE [ exc |-> NoExc, out |-> json_dumps(parsed.val) ]

\* the body of transform(code) on the text pulled from XCom: the text it
\* pushes under "meal_data", or the exception that ends the task
transform(extract_data_string) ==
  LET parsed == json_loads(extract_data_string) IN
  IF parsed.exc # NoExc THEN [ exc |-> parsed.exc, out |-> NoText ]
  ELSE LET popped == ListPop(parsed.val, 0) IN
       IF popped.exc # NoExc THEN [ exc |-> popped.exc, out |-> NoText ]
       ELSE [ exc |-> NoExc, out |-> json_dumps(popped.val) ]

(* --------------------------- upstream server --------------------------- *)

\* what the NEIS server answers with status 200 to a form body: NotJson is a
\* body that is not JSON, k >= 0 is an array of k rows, a header row first
NotJson == 0 - 1

Shapes == { NotJson } \cup (0..MaxRows)

Response(shape, form) ==
  IF shape = NotJson THEN BadText
  ELSE ArrayText(
         [ i \in 1..shape |->
             IF i = 1 THEN HeaderRow
             ELSE DataRow(form.ATPT_OFCDC_SC_CODE, form.MLSV_YMD[1], i - 1) ],
         "api")

(* ------------------------------ state ---------------------------------- *)

VARIABLES
  today,      \* days passed since the base day (the wall clock)
  triggered,  \* the day the batch was first triggered
  run,        \* how many times the batch has been started
  dagState,   \* the DagRun's state: "running", "success", "failed"
  ts,         \* ts[code][stage]: the task instance's state
  tries,      \* tries[code][stage]: attempts started in this run
  fails,      \* fails[code][stage]: attempts that failed in this run
  xcom,       \* xcom[code]: the values pushed by the code's tasks
  req,        \* req[code]: the form body of the code's latest extract attempt
  storage,    \* the bucket: a set of [key, body]
  wrote,      \* wrote[code]: the keys the code's load wrote in this run
  upstream,   \* upstream[code]: the shape of the server's answer for the code
  firstRun,   \* the bucket as the first run left it ({} before it ends)
  dl          \* the call of download_meal_info() of download_meal_info.py

vars == << today, triggered, run, dagState, ts, tries, fails, xcom, req,
           storage, wrote, upstream, firstRun, dl >>

\* download_meal_info() not called yet
NotCalled == [ pc |-> "idle", status |-> 0, exc |-> NoExc,
               ret |-> [ kind |-> "None", rows |-> << >> ] ]

NoXCom == [ return_value |-> NoText, meal_data |-> NoText ]

\* no form body built yet
NoForm == [ rows |-> 0, ATPT_OFCDC_SC_CODE |-> "", MMEAL_SC_NM |-> "",
            MLSV_YMD |-> << >> ]

Fresh(v) == [ c \in LoopCodes |-> [ s \in Stages |-> v ] ]

Init ==
  /\ today = 0
  /\ triggered = 0
  /\ run = 1
  /\ dagState = "running"
  /\ ts = Fresh("none")
  /\ tries = Fresh(0)
  /\ fails = Fresh(0)
  /\ xcom = [ c \in LoopCodes |-> NoXCom ]
  /\ req = [ c \in LoopCodes |-> NoForm ]
  /\ storage = {}
  /\ wrote = [ c \in LoopCodes |-> {} ]
  /\ upstream \in [ LoopCodes -> Shapes ]
  /\ firstRun = {}
  /\ dl = NotCalled

(* ------------------------- pipeline assembly --------------------------- *)

\* the wiring had `tasks = []` been set once before the loop: each code's
\* extract would follow the previous code's load
UpstreamChained(c, s) ==
  IF s = "extract"
    THEN { << ATPT_OFCDC_SC_CODES[j], "load" >> :
             j \in { i \in 1..(Len(ATPT_OFCDC_SC_CODES) - 1) :
                       /\ ATPT_OFCDC_SC_CODES[i + 1] = c
                       /\ ATPT_OFCDC_SC_CODES[i] \in LoopCodes } }
  ELSE IF s = "transform" THEN { << c, "extract" >> }
  ELSE { << c, "transform" >> }

\* the wiring without the line `tasks[-2] >> tasks[-1]`
UpstreamUnwired(c, s) == {}

\* tasks[-2] >> tasks[-1] with `tasks = []` per code: the upstream tasks of
\* the task (code, stage), as a set of << code, stage >>
Upstream(c, s) ==
  IF s = "extract" THEN {}
  ELSE IF s = "transform" THEN { << c, "extract" >> }
  ELSE { << c, "transform" >> }

Tasks == LoopCodes \X Stages

\* the tasks nothing depends on
Leaves == { t \in Tasks : \A u \in Tasks : t \notin Upstream(u[1], u[2]) }

St(t) == ts[t[1]][t[2]]

Finished(state) == state \in { "success", "failed", "upstream_failed" }

(* ------------------------------ actions -------------------------------- *)

\* the task instance's state after a failed attempt, by default_args' retries
AfterFailureNoRetry(try_number) == "failed"

\* the state had the budget been counted one attempt too many
AfterFailureOneMore(try_number) ==
  IF try_number <= retries + 1 THEN "up_for_retry" ELSE "failed"

AfterFailure(try_number) ==
  IF try_number <= retries THEN "up_for_retry" ELSE "failed"

SetTs(c, s, v) == ts' = [ ts EXCEPT ![c][s] = v ]

Fail(c, s) ==
  /\ SetTs(c, s, AfterFailure(tries[c][s]))
  /\ fails' = [ fails EXCEPT ![c][s] = @ + 1 ]

\* the scheduler starts an attempt of a task whose upstream tasks all
\* succeeded (trigger rule all_success); the worker parses the DAG file,
\* which builds the extract task's form body from pendulum.now()
StartTask(c, s) ==
  /\ dagState = "running"
  /\ ts[c][s] \in { "none", "up_for_retry" }
  /\ \A u \in Upstream(c, s) : St(u) = "success"
  /\ SetTs(c, s, "running")
  /\ tries' = [ tries EXCEPT ![c][s] = @ + 1 ]
  /\ req' = IF s = "extract"
              THEN [ req EXCEPT
                       ![c] = get_meal_form_data(c, NowPlusWeek(today),
                                                 NowPlusWeek(today)) ]
              ELSE req
  /\ UNCHANGED << today, triggered, run, dagState, fails, xcom, storage,
                  wrote, upstream, firstRun, dl >>

\* SimpleHttpOperator: response_check passes on status 200 and the
\* response text is pushed as return_value
ExtractOk(c) ==
  /\ ts[c]["extract"] = "running"
  /\ SetTs(c, "extract", "success")
  /\ xcom' = [ xcom EXCEPT ![c].return_value = Response(upstream[c], req[c]) ]
  /\ UNCHANGED << today, triggered, run, dagState, tries, fails, req,
                  storage, wrote, upstream, firstRun, dl >>

\* the request fails or response_check is false: the attempt fails
ExtractFail(c) ==
  /\ ts[c]["extract"] = "running"
  /\ Fail(c, "extract")
  /\ UNCHANGED << today, triggered, run, dagState, tries, xcom, req,
                  storage, wrote, upstream, firstRun, dl >>

\* the partition whose tasks a callable bound with a lambda reading the loop
\* variable `code` late would pull from: the last code of the loop
PullsFromLastCode(code) == ATPT_OFCDC_SC_CODES[Cardinality(LoopCodes)]

\* ti.xcom_pull(task_ids=f"extract_{code}_meal_data", key="return_value") and
\* ti.xcom_pull(task_ids=f"transform_{code}_meal_data", key="meal_data"),
\* code bound by partial(..., code=code): the partition pulled from
PullsFrom(code) == code

\* PythonOperator(python_callable=partial(transform, code=code))
TransformRun(c) ==
  /\ ts[c]["transform"] = "running"
  /\ LET r == transform(xcom[PullsFrom(c)].return_value) IN
       IF r.exc = NoExc
         THEN /\ SetTs(c, "transform", "success")
              /\ xcom' = [ xcom EXCEPT ![c].meal_data = r.out ]
              /\ UNCHANGED fails
         ELSE /\ Fail(c, "transform")
              /\ UNCHANGED xcom
  /\ UNCHANGED << today, triggered, run, dagState, tries, req, storage,
                  wrote, upstream, firstRun, dl >>

\* the attempt ends for a reason outside the payload (ti.xcom_pull or
\* ti.xcom_push raising, the worker lost) with nothing pushed
TransformCrash(c) ==
  /\ ts[c]["transform"] = "running"
  /\ Fail(c, "transform")
  /\ UNCHANGED << today, triggered, run, dagState, tries, xcom, req,
                  storage, wrote, upstream, firstRun, dl >>

\* hook.load_string(..., replace=True): the object at the key is replaced
load_string(bucket, string_data, key) ==
  { o \in bucket : o.key # key } \cup { [ key |-> key, body |-> string_data ] }

\* PythonOperator(python_callable=partial(load, code=code)), the write done
LoadOk(c) ==
  /\ ts[c]["load"] = "running"
  /\ LET date == NowPlusWeek(today)
         meal_data == json_loads(xcom[PullsFrom(c)].meal_data)
         key == StorageKey(date, c) IN
       /\ meal_data.exc = NoExc
       /\ storage' = load_string(storage, json_dumps(meal_data.val), key)
       /\ wrote' = [ wrote EXCEPT ![c] = @ \cup { key } ]
  /\ SetTs(c, "load", "success")
  /\ UNCHANGED << today, triggered, run, dagState, tries, fails, xcom, req,
                  upstream, firstRun, dl >>

\* the S3 write fails, or the pulled text does not parse
LoadFail(c) ==
  /\ ts[c]["load"] = "running"
  /\ Fail(c, "load")
  /\ UNCHANGED << today, triggered, run, dagState, tries, xcom, req,
                  storage, wrote, upstream, firstRun, dl >>

\* a task not started whose upstream task failed is marked upstream_failed
UpstreamFailed(c, s) ==
  /\ dagState = "running"
  /\ ts[c][s] = "none"
  /\ \E u \in Upstream(c, s) : St(u) \in { "failed", "upstream_failed" }
  /\ SetTs(c, s, "upstream_failed")
  /\ UNCHANGED << today, triggered, run, dagState, tries, fails, xcom, req,
                  storage, wrote, upstream, firstRun, dl >>

\* DagRun.update_state: once no task is unfinished the run succeeds if
\* every leaf task succeeded and fails otherwise
UpdateDagRun ==
  /\ dagState = "running"
  /\ \A t \in Tasks : Finished(St(t))
  /\ dagState' = IF \A t \in Leaves : St(t) = "success"
                   THEN "success" ELSE "failed"
  /\ firstRun' = IF run = 1 THEN storage ELSE firstRun
  /\ UNCHANGED << today, triggered, run, ts, tries, fails, xcom, req,
                  storage, wrote, upstream, dl >>

\* the finished run is cleared and run again for the same trigger date
Rerun ==
  /\ dagState # "running"
  /\ run < MaxRuns
  /\ run' = run + 1
  /\ dagState' = "running"
  /\ ts' = Fresh("none")
  /\ tries' = Fresh(0)
  /\ fails' = Fresh(0)
  /\ xcom' = [ c \in LoopCodes |-> NoXCom ]
  /\ req' = [ c \in LoopCodes |-> NoForm ]
  /\ wrote' = [ c \in LoopCodes |-> {} ]
  /\ UNCHANGED << today, triggered, storage, upstream, firstRun, dl >>

\* midnight passes
Tick ==
  /\ today < MaxDay
  /\ today' = today + 1
  /\ UNCHANGED << triggered, run, dagState, ts, tries, fails, xcom, req,
                  storage, wrote, upstream, firstRun, dl >>

\* one batch
Next ==
  \/ \E c \in LoopCodes, s \in Stages : StartTask(c, s)
  \/ \E c \in LoopCodes : ExtractOk(c)
  \/ \E c \in LoopCodes : ExtractFail(c)
  \/ \E c \in LoopCodes : TransformRun(c)
  \/ \E c \in LoopCodes : LoadOk(c)
  \/ \E c \in LoopCodes : LoadFail(c)
  \/ \E c \in LoopCodes, s \in Stages : UpstreamFailed(c, s)
  \/ UpdateDagRun
  \/ Tick

Spec == Init /\ [][Next]_vars

\* the scheduler and the workers keep going: a task that can start is
\* started, a running attempt ends, a finished run is closed
Progress ==
  \/ \E c \in LoopCodes, s \in Stages : StartTask(c, s)
  \/ \E c \in LoopCodes : ExtractOk(c) \/ ExtractFail(c)
  \/ \E c \in LoopCodes : TransformRun(c)
  \/ \E c \in LoopCodes : LoadOk(c) \/ LoadFail(c)
  \/ \E c \in LoopCodes, s \in Stages : UpstreamFailed(c, s)
  \/ UpdateDagRun

\* the retry policy does not read the rows: under fairness the server's
\* answers are bodies that are not JSON, empty arrays and lone header rows
InitFair == Init /\ \A c \in LoopCodes : upstream[c] <= 1

FairSpec == InitFair /\ [][Next]_vars /\ WF_vars(Progress)

\* the batch run again for the same trigger date, the server answering a
\* header and at least one row, no attempt failing
InitRerun == Init /\ \A c \in LoopCodes : upstream[c] >= 1

NextRerun ==
  \/ \E c \in LoopCodes, s \in Stages : StartTask(c, s)
  \/ \E c \in LoopCodes : ExtractOk(c)
  \/ \E c \in LoopCodes : TransformRun(c)
  \/ \E c \in LoopCodes : LoadOk(c)
  \/ UpdateDagRun
  \/ Rerun
  \/ Tick

SpecRerun == InitRerun /\ [][NextRerun]_vars

\* one batch in which Transform attempts may also end for reasons outside
\* the payload, Extract and Load attempts not failing, on one day
NextTransformRetry ==
  \/ \E c \in LoopCodes, s \in Stages : StartTask(c, s)
  \/ \E c \in LoopCodes : ExtractOk(c)
  \/ \E c \in LoopCodes : TransformRun(c)
  \/ \E c \in LoopCodes : TransformCrash(c)
  \/ \E c \in LoopCodes : LoadOk(c)
  \/ \E c \in LoopCodes, s \in Stages : UpstreamFailed(c, s)
  \/ UpdateDagRun

SpecTransformRetry == Init /\ [][NextTransformRetry]_vars

(* ------------------------------ claims --------------------------------- *)

Started(c, s) == tries[c][s] > 0

\* C1: within a partition the stages run in strict order: Transform for P
\* has no attempt started unless Extract for P has succeeded, and Load for P
\* has no attempt started unless Transform for P has succeeded.
C1_StrictOrder ==
  \A c \in LoopCodes :
    /\ Started(c, "transform") => ts[c]["extract"] = "success"
    /\ Started(c, "load") => ts[c]["transform"] = "success"

\* a Load attempt is in flight in a partition
C1_Witness ==
  \E c \in LoopCodes :
    /\ ts[c]["load"] = "running"
    /\ ts[c]["transform"] = "success"
    /\ ts[c]["extract"] = "success"

ObjectsOf(c) == { o \in storage : o.key.name = c }

StageNo(s) == CHOOSE i \in 1..Len(TASK_TYPES) : TASK_TYPES[i] = s

\* the stages of the chain before stage s
Before(s) == { TASK_TYPES[i] : i \in 1..(StageNo(s) - 1) }

\* the rows the server answered to the code's latest request, the first dropped
ExpectedRows(c) == Tail(Response(upstream[c], req[c]).rows)

\* C2: failure isolation.  While Extract of P has failed for good, every
\* task of another partition Q whose own earlier stages succeeded can be
\* started, no task of Q is marked upstream_failed unless an earlier stage
\* of Q itself failed, the object stored by Q's Load is the answer to Q's own
\* request without its first row, and a step that changes a task of P leaves
\* the tasks, the XComs and the objects of Q as they were.
C2_Inv ==
  \A p \in LoopCodes : \A q \in LoopCodes \ { p } :
    /\ \A s \in Stages :
         /\ ( /\ ts[p]["extract"] = "failed"
              /\ dagState = "running"
              /\ ts[q][s] \in { "none", "up_for_retry" }
              /\ \A b \in Before(s) : ts[q][b] = "success" )
            => ENABLED StartTask(q, s)
         /\ ts[q][s] = "upstream_failed"
            => \E b \in Before(s) : ts[q][b] = "failed"
    /\ ts[q]["load"] = "success"
       => \E o \in ObjectsOf(q) : o.body = json_dumps(ExpectedRows(q))

C2_Frame ==
  \A p \in LoopCodes : \A q \in LoopCodes \ { p } :
    ts'[p] # ts[p]
      => /\ ts'[q] = ts[q]
         /\ tries'[q] = tries[q]
         /\ xcom'[q] = xcom[q]
         /\ { o \in storage' : o.key.name = q } = ObjectsOf(q)

C2_FailureIsolation == []C2_Inv /\ [][C2_Frame]_vars

\* Extract of one partition failed for good and another partition's Load
\* succeeded and stored its object
C2_Witness ==
  \E p \in LoopCodes : \E q \in LoopCodes \ { p } :
    /\ ts[p]["extract"] = "failed"
    /\ fails[p]["extract"] = retries + 1
    /\ ts[q]["load"] = "success"
    /\ ObjectsOf(q) # {}

\* the batch's target date: trigger date + the forward offset, as YYYYMMDD
TargetYmd == Strftime(triggered + AddDays)

\* C3: every Extract request and every Load key of the batch, for every
\* partition and every attempt, carries the one target date computed from
\* the trigger date.
C3_OneDatePerBatch ==
  \A c \in LoopCodes :
    /\ req[c] # NoForm => req[c].MLSV_YMD = << TargetYmd, TargetYmd >>
    /\ \A k \in wrote[c] : k.dir = TargetYmd

\* C4: after the pipeline ran twice for the same trigger date on the same
\* upstream data, the bucket holds the keys and the bodies the first run left.
C4_Idempotent ==
  (run = 2 /\ dagState = "success") => storage = firstRun

\* C5: Transform on a RawPayload of zero rows succeeds and pushes an empty
\* CleanedPayload.
C5_EmptyPayloadOk ==
  \A c \in LoopCodes :
    ( /\ xcom[c].return_value.kind = "array"
      /\ Len(xcom[c].return_value.rows) = 0
      /\ Started(c, "transform")
      /\ ts[c]["transform"] # "running" )
    => /\ ts[c]["transform"] = "success"
       /\ xcom[c].meal_data.kind = "array"
       /\ Len(xcom[c].meal_data.rows) = 0

\* C6: Transform on a RawPayload of k >= 1 rows pushes a CleanedPayload of
\* k - 1 rows: rows 1..k-1 of the input, in their order.
C6_DropsFirstRow ==
  \A c \in LoopCodes :
    ( /\ ts[c]["transform"] = "success"
      /\ xcom[c].return_value.kind = "array"
      /\ Len(xcom[c].return_value.rows) >= 1 )
    => LET in == xcom[c].return_value.rows
           out == xcom[c].meal_data IN
         /\ out.kind = "array"
         /\ Len(out.rows) = Len(in) - 1
         /\ \A i \in 1..Len(out.rows) : out.rows[i] = in[i + 1]

\* Transform succeeded on a payload of at least three rows
C6_Witness ==
  \E c \in LoopCodes :
    /\ ts[c]["transform"] = "success"
    /\ Len(xcom[c].return_value.rows) >= 3
    /\ Len(xcom[c].meal_data.rows) >= 2

PartitionFinal(c) ==
  \/ ts[c]["load"] \in { "success", "failed", "upstream_failed" }

\* transient failures of the partition: failed Extract and Load attempts
Transient(c) == fails[c]["extract"] + fails[c]["load"]

\* C7 as claimed: a partition whose only failures are R transient ones ends
\* in Load success when R <= retries and ends failed when R > retries.
C7_RetryBoundPerPartition ==
  \A c \in LoopCodes :
    (PartitionFinal(c) /\ fails[c]["transform"] = 0)
      => (ts[c]["load"] = "success" <=> Transient(c) <= retries)

\* C7 amended: the budget is per stage.  Every partition ends; it ends in
\* Load success exactly when none of its stages failed more than `retries`
\* times, and otherwise one stage is failed after retries + 1 failed
\* attempts and every later stage is upstream_failed.
C7_Final(c) ==
  PartitionFinal(c) =>
    /\ ts[c]["load"] = "success" <=> \A s \in Stages : fails[c][s] <= retries
    /\ ts[c]["load"] # "success"
       => \E s \in Stages :
            /\ ts[c][s] = "failed"
            /\ fails[c][s] = retries + 1
            /\ \A b \in Before(s) : ts[c][b] = "success"
            /\ \A a \in Stages \ (Before(s) \cup { s }) :
                 ts[c][a] = "upstream_failed"

C7_RetryBoundPerStage ==
  \A c \in LoopCodes : <>PartitionFinal(c) /\ [](C7_Final(c))

\* a partition reached Load success after three transient failures
C7_Witness ==
  \E c \in LoopCodes :
    /\ ts[c]["load"] = "success"
    /\ fails[c]["extract"] = retries
    /\ fails[c]["load"] = 1

Malformed(c) == xcom[c].return_value.kind = "bad"

LoadSucceeded(p) == p \in DOMAIN ts /\ ts[p]["load"] = "success"

\* C9: the batch's terminal state is success if and only if every
\* partition of the registry reached Load success.
C9_SucceededIff ==
  dagState # "running"
    => (dagState = "success" <=> \A p \in Registry : LoadSucceeded(p))

\* the batch ended in success
C9_Witness ==
  /\ dagState = "success"
  /\ \A p \in Registry : LoadSucceeded(p) /\ ObjectsOf(p) # {}

\* the partition has a stage that failed after using up its retries
Exhausted(p) ==
  \E s \in Stages : ts[p][s] = "failed" /\ fails[p][s] = retries + 1

\* C10 as claimed: the terminal state is PartiallyFailed exactly when a
\* partition exhausted its retries while another succeeded, and Failed is
\* kept for a batch that could not fan out.
C10_PartiallyFailedIff ==
  dagState # "running"
    => /\ dagState \in { "success", "PartiallyFailed", "failed" }
       /\ dagState = "PartiallyFailed"
            <=> /\ \E p \in LoopCodes : Exhausted(p)
                /\ \E q \in LoopCodes : ts[q]["load"] = "success"
       /\ dagState = "failed" => \A t \in Tasks : ~Started(t[1], t[2])

\* C10 amended: the terminal state is success or failed, nothing else; it is
\* failed exactly when at least one partition exhausted its retries, also
\* when other partitions succeeded.
C10_FailedIff ==
  /\ dagState \in { "running", "success", "failed" }
  /\ dagState # "running"
       => (dagState = "failed" <=> \E p \in LoopCodes : Exhausted(p))

\* the batch ended failed although one partition succeeded
C10_Witness ==
  /\ dagState = "failed"
  /\ \E p \in LoopCodes : Exhausted(p)
  /\ \E q \in LoopCodes : ts[q]["load"] = "success"

\* C11: a successful batch leaves, for every partition P of the registry,
\* exactly one object written by the batch, at the key of the batch's target
\* date and P, and none under another date or name.
C11_OneObjectAtTargetKey ==
  dagState = "success"
    => \A p \in Registry :
         /\ p \in DOMAIN wrote
         /\ wrote[p] = { [ dir |-> TargetYmd, name |-> p ] }
         /\ \E o \in storage : o.key = [ dir |-> TargetYmd, name |-> p ]

(* ---------------------- download_meal_info.py -------------------------- *)

\* the status codes the server answers with in the model
HttpStatuses == { 200, 204, 404, 500 }

\* download_meal_info() given the response's status code and text: what it
\* returns (r.json() on 200, nothing, so None, otherwise) or raises
download_meal_info(status_code, text) ==
  IF status_code = 200
    THEN LET parsed == json_loads(text) IN
           IF parsed.exc # NoExc
             THEN [ exc |-> parsed.exc, ret |-> [ kind |-> "None", rows |-> << >> ] ]
             ELSE [ exc |-> NoExc, ret |-> [ kind |-> "list", rows |-> parsed.val ] ]
    ELSE [ exc |-> NoExc, ret |-> [ kind |-> "None", rows |-> << >> ] ]

\* one call of download_meal_info(): the form body is built for "G10" and
\* datetime.now(), the server answers with a status and a body
DownloadMealInfo ==
  /\ dl.pc = "idle"
  /\ \E status_code \in HttpStatuses, shape \in Shapes :
       LET form == get_meal_form_data(ATPT_OFCDC_SC_CODES[6], today, today)
           r == download_meal_info(status_code, Response(shape, form)) IN
         dl' = [ pc |-> "done", status |-> status_code, exc |-> r.exc,
                 ret |-> r.ret ]
  /\ UNCHANGED << today, triggered, run, dagState, ts, tries, fails, xcom,
                  req, storage, wrote, upstream, firstRun >>

NextScript ==
  \/ DownloadMealInfo
  \/ Tick

SpecScript == Init /\ [][NextScript]_vars

\* C12: an Extract call that receives a non-200 response ends with an error;
\* it does not return a value, empty or null, as if it had succeeded.
C12_Non200FailsExplicitly ==
  (dl.pc = "done" /\ dl.status # 200) => dl.exc # NoExc

\* C13: no partition writes to another partition's key.  Every change of
\* the bucket is made by the Load of one partition P ending in success; the
\* objects it adds or replaces have P as the partition part of their key, and
\* the objects of every other partition stay as they were.
C13_Step ==
  /\ storage' # storage
       => \E c \in LoopCodes :
            ts[c]["load"] = "running" /\ ts'[c]["load"] = "success"
  /\ \A c \in LoopCodes :
       (ts[c]["load"] = "running" /\ ts'[c]["load"] = "success")
         => /\ \A o \in storage' \ storage : o.key.name = c
            /\ \A o \in storage \ storage' : o.key.name = c
            /\ wrote'[c] \ wrote[c] = { o.key : o \in storage' \ storage }
            /\ \A q \in LoopCodes \ { c } :
                 { o \in storage' : o.key.name = q } = ObjectsOf(q)

C13_NoForeignWrite == [][C13_Step]_vars

\* a partition's Load has written while another partition's object is stored
C13_Witness ==
  \E p \in LoopCodes : \E q \in LoopCodes \ { p } :
    /\ ts[p]["load"] = "success"
    /\ wrote[p] # {}
    /\ wrote[q] # {}
    /\ ObjectsOf(p) # {}
    /\ ObjectsOf(q) # {}

\* the number spells a date as YYYYMMDD
IsYmd(n) ==
  /\ n \div 10000 \in 1000..9999
  /\ (n \div 100) % 100 \in 1..12
  /\ n % 100 \in 1..31

\* C14: the body of every Extract request carries the code of the
\* requesting partition and two MLSV_YMD parameters, the start date then the
\* end date, each written YYYYMMDD; in the DAG both are the day the request
\* was built plus seven, and they are sent as two although they are equal.
C14_TwoDateParameters ==
  \A c \in LoopCodes :
    req[c] # NoForm
      => /\ req[c].ATPT_OFCDC_SC_CODE = c
         /\ Len(req[c].MLSV_YMD) = 2
         /\ \A i \in 1..Len(req[c].MLSV_YMD) : IsYmd(req[c].MLSV_YMD[i])
         /\ \E d \in triggered..today :
              req[c].MLSV_YMD = << BaseYmd + d + AddDays, BaseYmd + d + AddDays >>

\* an Extract request with equal boundaries has been sent and answered
C14_Witness ==
  \E c \in LoopCodes :
    /\ ts[c]["extract"] = "success"
    /\ Len(req[c].MLSV_YMD) = 2
    /\ req[c].MLSV_YMD[1] = req[c].MLSV_YMD[2]

\* the rows of `out` are the rows of `raw` after the first, in their order
FirstRowRemoved(raw, out) ==
  /\ Len(raw) >= 1
  /\ Len(out) = Len(raw) - 1
  /\ \A i \in 1..Len(out) : out[i] = raw[i + 1]

\* C15: data flows only within a partition.  The payload Transform of P
\* pushed is the payload Extract of P returned, itself the server's answer
\* to P's own request, with its first row removed; the object Load of P
\* stored is that payload in turn, so it holds the rows of P's Extract after
\* the first, in order, and no row of another partition.
C15_DataWithinPartition ==
  \A p \in LoopCodes :
    /\ ts[p]["extract"] = "success"
         => /\ req[p].ATPT_OFCDC_SC_CODE = p
            /\ xcom[p].return_value = Response(upstream[p], req[p])
    /\ ts[p]["transform"] = "success"
         => /\ xcom[p].meal_data.kind = "array"
            /\ FirstRowRemoved(xcom[p].return_value.rows, xcom[p].meal_data.rows)
    /\ ts[p]["load"] = "success"
         => /\ wrote[p] # {}
            /\ \A k \in wrote[p] :
                 \E o \in storage :
                   /\ o.key = k
                   /\ o.body.kind = "array"
                   /\ FirstRowRemoved(xcom[p].return_value.rows, o.body.rows)
                   /\ \A i \in 1..Len(o.body.rows) :
                        o.body.rows[i].kind = "data" => o.body.rows[i].code = p

\* both partitions stored their objects, one of them with two data rows
C15_Witness ==
  /\ \A p \in LoopCodes : ts[p]["load"] = "success"
  /\ \E p \in LoopCodes :
       \E o \in ObjectsOf(p) : Len(o.body.rows) >= 2
  /\ \E p \in LoopCodes : \E q \in LoopCodes \ { p } :
       upstream[p] # upstream[q]

\* C16: there is no ordering between partitions.  The dependency edges are
\* exactly Extract(P) -> Transform(P) and Transform(P) -> Load(P), and a task
\* of Q whose own earlier stages succeeded can be started whatever the tasks
\* of the other partitions are doing: not started, in flight, or all done.
C16_NoCrossPartitionOrdering ==
  \A q \in LoopCodes : \A s \in Stages :
    /\ Upstream(q, s) =
         IF StageNo(s) = 1 THEN {}
         ELSE { << q, TASK_TYPES[StageNo(s) - 1] >> }
    /\ ( /\ dagState = "running"
         /\ ts[q][s] \in { "none", "up_for_retry" }
         /\ \A b \in Before(s) : ts[q][b] = "success" )
       => ENABLED StartTask(q, s)

\* every stage of P completed before Extract of Q was started
C16_Sequential ==
  \E p \in LoopCodes : \E q \in LoopCodes \ { p } :
    /\ \A s \in Stages : ts[p][s] = "success"
    /\ \A s \in Stages : ~Started(q, s)

\* stages of P and Q are in flight at the same time
C16_Witness ==
  \E p \in LoopCodes : \E q \in LoopCodes \ { p } :
    /\ ts[p]["load"] = "running"
    /\ ts[q]["extract"] = "running"

\* C17: the retry budget is bounded per stage.  In one batch no stage of a
\* partition is attempted more than 1 + retries times, and a stage that
\* succeeded is not attempted again while a later stage is retried: it stays
\* succeeded, its attempt count stays, and the payload it pushed stays.
C17_AttemptsBounded ==
  \A c \in LoopCodes : \A s \in Stages :
    /\ tries[c][s] <= 1 + retries
    /\ fails[c][s] <= tries[c][s]

C17_Step ==
  \A c \in LoopCodes :
    /\ \A s \in Stages :
         ts[c][s] = "success"
           => ts'[c][s] = "success" /\ tries'[c][s] = tries[c][s]
    /\ ts[c]["extract"] = "success"
         => xcom'[c].return_value = xcom[c].return_value
    /\ ts[c]["transform"] = "success"
         => xcom'[c].meal_data = xcom[c].meal_data

C17_RetryPerStage == []C17_AttemptsBounded /\ [][C17_Step]_vars

\* Load is in its third attempt, Extract and Transform attempted once each
C17_Witness ==
  \E c \in LoopCodes :
    /\ ts[c]["load"] = "running"
    /\ tries[c]["load"] = 1 + retries
    /\ tries[c]["extract"] = 1
    /\ tries[c]["transform"] = 1

\* Extract or Transform of the partition ended failed
UpstreamStageFailed(c) ==
  ts[c]["extract"] = "failed" \/ ts[c]["transform"] = "failed"

\* C18: a partition whose Extract or Transform ended failed never runs its
\* later stages in the batch: they are not attempted, the partition writes
\* no key, and no step changes the objects stored under its name.
C18_NoDownstreamRun ==
  \A c \in LoopCodes :
    /\ ts[c]["extract"] = "failed"
         => /\ ~Started(c, "transform")
            /\ ts[c]["transform"] \in { "none", "upstream_failed" }
    /\ UpstreamStageFailed(c)
         => /\ ~Started(c, "load")
            /\ ts[c]["load"] \in { "none", "upstream_failed" }
            /\ wrote[c] = {}

C18_Step ==
  \A c \in LoopCodes :
    UpstreamStageFailed(c)
      => /\ UpstreamStageFailed(c)'
         /\ { o \in storage' : o.key.name = c } = ObjectsOf(c)

C18_FailedWritesNothing == []C18_NoDownstreamRun /\ [][C18_Step]_vars

\* the batch ended with one partition failed in Transform, its Load never
\* run, and the other partition's object stored
C18_Witness ==
  \E c \in LoopCodes : \E q \in LoopCodes \ { c } :
    /\ dagState = "failed"
    /\ ts[c]["transform"] = "failed"
    /\ ts[c]["load"] = "upstream_failed"
    /\ ObjectsOf(c) = {}
    /\ ObjectsOf(q) # {}

\* C19: for every partition the date in the key Load writes is the date
\* sent as both boundaries of the partition's Extract request, whatever
\* time passes between building the request and running Load.
C19_KeyDateIsRequestDate ==
  \A c \in LoopCodes :
    \A k \in wrote[c] : req[c].MLSV_YMD = << k.dir, k.dir >>

\* the RawPayload of the partition: the server's answer to its request
RawPayload(c) == Response(upstream[c], req[c])

\* C20: Transform is idempotent under re-execution.  However many attempts
\* Transform of P needed, the payload it hands to Load is the RawPayload of
\* P with exactly one row, the first, removed; every attempt reads the
\* Extract output, which stays as Extract pushed it.
C20_OneRowRemovedWhateverAttempts ==
  \A c \in LoopCodes :
    /\ ts[c]["extract"] = "success" => xcom[c].return_value = RawPayload(c)
    /\ ts[c]["transform"] = "success"
         => /\ tries[c]["transform"] \in 1..(1 + retries)
            /\ Len(xcom[c].meal_data.rows) = Len(RawPayload(c).rows) - 1
            /\ xcom[c].meal_data.rows = Tail(RawPayload(c).rows)
    /\ ts[c]["load"] = "success"
         => \A o \in ObjectsOf(c) : o.body.rows = Tail(RawPayload(c).rows)

\* Transform succeeded at its third attempt on a payload of three rows and
\* Load stored the two rows left
C20_Witness ==
  \E c \in LoopCodes :
    /\ ts[c]["load"] = "success"
    /\ tries[c]["transform"] = 1 + retries
    /\ fails[c]["transform"] = retries
    /\ Len(RawPayload(c).rows) = 3
    /\ \E o \in ObjectsOf(c) : Len(o.body.rows) = 2

====
